---- MODULE Spec2Model ----
(***************************************************************************)
(* Model of player.py (Reception Room TV): show discovery over a file      *)
(* system tree, per-show playlists, the round-robin master playlist and    *)
(* the forever loop that hands it to the external player.                  *)
(*                                                                         *)
(* A str is a sequence of one-character strings, a Path is the sequence of *)
(* its components below the root, and the file system is a tree of nodes.  *)
(***************************************************************************)
EXTENDS Integers, Sequences, FiniteSets, TLC

VARIABLES
    fs,               \* the file system: the node of the root directory
    roots,            \* video_source_directories: the configured roots (Paths)
    order,            \* the order in which the OS listed directories in the last step
    pc,               \* position of the running code
    shows,            \* find_show_directories' result (main loop: shows)
    playlists,        \* the Playlist objects (main loop: playlists)
    master_playlist,  \* build_unified_playlist's result (main loop: master_playlist)
    playlist_file,    \* content of PLAYLIST_FILE
    mpv_playlist,     \* the playlist the external player was last started with
    cycles,           \* play_videos calls completed so far, counted up to MaxCycles
    previous_cycle,   \* the shows and their videos as the last completed cycle found them
    called_on,        \* the directory of a direct get_videos call
    videos,           \* what the last direct get_videos call returned or raised
    playlist_length,  \* the cap handed to build_unified_playlist
    given,            \* the Playlist objects as they were constructed
    returned          \* the videos returned by the next_video calls so far, in order

vars == <<fs, roots, order, pc, shows, playlists, master_playlist, playlist_file,
          mpv_playlist, cycles, previous_cycle, called_on, videos, playlist_length,
          given, returned>>

-----------------------------------------------------------------------------
(* Bounds of the model *)

\* most playlists handed to build_unified_playlist in the scheduler harness
MaxShows == 3
\* most videos of one playlist in the harnesses
MaxVideos == 3
\* most rounds k of a cap k*N in the scheduler harness
MaxRounds == 2
\* most next_video calls on one playlist in the playlist harness
MaxCalls == 7
\* the main loop's completed cycles are counted up to this
MaxCycles == 2

-----------------------------------------------------------------------------
(* str *)

\* the printable ASCII characters in code point order, from 32 (the grave accent,
\* code point 96, is written GRAVE)
Ascii ==
    <<" ", "!", "\"", "#", "$", "%", "&", "'", "(", ")", "*", "+", ",", "-", ".", "/">> \o
    <<"0", "1", "2", "3", "4", "5", "6", "7", "8", "9", ":", ";", "<", "=", ">", "?">> \o
    <<"@", "A", "B", "C", "D", "E", "F", "G", "H", "I", "J", "K", "L", "M", "N", "O">> \o
    <<"P", "Q", "R", "S", "T", "U", "V", "W", "X", "Y", "Z", "[", "\\", "]", "^", "_">> \o
    <<"GRAVE", "a", "b", "c", "d", "e", "f", "g", "h", "i", "j", "k", "l", "m", "n", "o">> \o
    <<"p", "q", "r", "s", "t", "u", "v", "w", "x", "y", "z", "{", "|", "}", "~">>

OrdTable == [c \in {Ascii[i] : i \in 1..Len(Ascii)} |->
                31 + (CHOOSE i \in 1..Len(Ascii) : Ascii[i] = c)]

\* ord(c): the code point of a character
Ord(c) == OrdTable[c]

LowerTable == [c \in {Ascii[i] : i \in 1..Len(Ascii)} |->
                IF OrdTable[c] \in 65..90 THEN Ascii[OrdTable[c] + 32 - 31] ELSE c]

\* the sequence a rule f over 1..n describes, laid out element by element
List(f) == SubSeq(f, 1, Len(f))

\* str.lower()
lower(s) == List([i \in 1..Len(s) |-> LowerTable[s[i]]])

\* str.startswith(prefix)
startswith(s, prefix) ==
    Len(s) >= Len(prefix) /\ SubSeq(s, 1, Len(prefix)) = prefix

\* the test (sub in s) for strs
contains(sub, s) ==
    \E i \in 0..(Len(s) - Len(sub)) : SubSeq(s, i + 1, i + Len(sub)) = sub

\* a < b for strs: lexicographic by code point
StrLess(a, b) ==
    \/ \E k \in 1..(IF Len(a) < Len(b) THEN Len(a) ELSE Len(b)) :
          /\ SubSeq(a, 1, k - 1) = SubSeq(b, 1, k - 1)
          /\ Ord(a[k]) < Ord(b[k])
    \/ (Len(a) < Len(b) /\ SubSeq(b, 1, Len(a)) = a)

-----------------------------------------------------------------------------
(* pathlib.Path over the file system tree *)

Dir(n, es)  == [name |-> n, kind |-> "dir", entries |-> es, denied |-> FALSE]
\* a directory whose listing fails with PermissionError
DeniedDir(n, es) == [name |-> n, kind |-> "dir", entries |-> es, denied |-> TRUE]
File(n)     == [name |-> n, kind |-> "file", entries |-> <<>>, denied |-> FALSE]
\* neither a directory nor a regular file (a fifo, a socket)
Special(n)  == [name |-> n, kind |-> "other", entries |-> <<>>, denied |-> FALSE]
NoEntry     == [name |-> <<>>, kind |-> "absent", entries |-> <<>>, denied |-> FALSE]

RECURSIVE Walk(_, _)
Walk(node, path) ==
    IF path = <<>> THEN node
    ELSE IF node.kind # "dir" THEN NoEntry
    ELSE LET hit == {i \in 1..Len(node.entries) : node.entries[i].name = Head(path)}
         IN  IF hit = {} THEN NoEntry
             ELSE Walk(node.entries[CHOOSE i \in hit : TRUE], Tail(path))

\* the node a Path names in the file system
Resolve(path) == Walk(fs, path)

\* Path.name (the empty str for the root directory)
PathName(path) == IF path = <<>> THEN <<>> ELSE path[Len(path)]

\* Path.parent
PathParent(path) == IF path = <<>> THEN <<>> ELSE SubSeq(path, 1, Len(path) - 1)

\* Path.parents: the parent, its parent, ... up to the root directory
PathParents(path) == List([i \in 1..Len(path) |-> SubSeq(path, 1, Len(path) - i)])

\* Path.suffix: from the last '.' of the name, unless that '.' is its first or last character
PathSuffix(path) ==
    LET name == PathName(path)
        dots == {i \in 1..Len(name) : name[i] = "."}
    IN  IF dots = {} THEN <<>>
        ELSE LET i == CHOOSE d \in dots : \A e \in dots : e <= d
             IN  IF 1 < i /\ i < Len(name) THEN SubSeq(name, i, Len(name)) ELSE <<>>

\* p < q for Paths: the component lists compared lexicographically
RECURSIVE PathLess(_, _)
PathLess(p, q) ==
    IF q = <<>> THEN FALSE
    ELSE IF p = <<>> THEN TRUE
    ELSE IF Head(p) = Head(q) THEN PathLess(Tail(p), Tail(q))
    ELSE StrLess(Head(p), Head(q))

\* the orders in which the OS may list a directory (iterdir's order is unspecified)
ListingOrders == {"stored", "reversed", "rotated"}

Permute(s, ord) ==
    IF ord = "reversed" THEN List([i \in 1..Len(s) |-> s[Len(s) + 1 - i]])
    ELSE IF ord = "rotated" /\ Len(s) > 1 THEN Tail(s) \o <<Head(s)>>
    ELSE s

Ok(v) == [raised |-> FALSE, value |-> v]
\* PermissionError raised by a directory listing
PermissionError == [raised |-> TRUE, value |-> <<>>]

\* Path.iterdir(): the entries' Paths, in the OS's order
iterdir(directory, ord) ==
    LET node == Resolve(directory)
    IN  IF node.denied THEN PermissionError
        ELSE Ok(Permute(List([i \in 1..Len(node.entries) |->
                                 Append(directory, node.entries[i].name)]), ord))

\* sorted(paths): the k-th element is the one with k - 1 elements before it, equal
\* elements keeping their order
sorted(paths) ==
    LET n == Len(paths)
        before == List([i \in 1..n |->
                    Cardinality({j \in 1..n :
                        \/ PathLess(paths[j], paths[i])
                        \/ (j < i /\ ~ PathLess(paths[i], paths[j]))})])
    IN  List([k \in 1..n |-> paths[CHOOSE i \in 1..n : before[i] = k - 1]])

-----------------------------------------------------------------------------
(* player.py *)

VALID_EXTENSIONS ==
    { <<".", "m", "p", "4">>, <<".", "m", "k", "v">>, <<".", "a", "v", "i">>,
      <<".", "f", "l", "v">>, <<".", "w", "m", "v">>, <<".", "m", "o", "v">>,
      <<".", "w", "e", "b", "m">>, <<".", "m", "p", "g">>, <<".", "m", "p", "e", "g">>,
      <<".", "m", "4", "v">>, <<".", "3", "g", "p">>, <<".", "3", "g", "2">>,
      <<".", "f", "4", "v">>, <<".", "m", "4", "p">>, <<".", "m", "p", "2">>,
      <<".", "m", "p", "e">>, <<".", "m", "p", "v">>, <<".", "m", "2", "v">>,
      <<".", "v", "o", "b">>, <<".", "o", "g", "v">>, <<".", "o", "g", "g">>,
      <<".", "d", "r", "c">>, <<".", "g", "i", "f">>, <<".", "g", "i", "f", "v">>,
      <<".", "m", "n", "g">>, <<".", "q", "t">>, <<".", "y", "u", "v">>,
      <<".", "r", "m">>, <<".", "r", "m", "v", "b">>, <<".", "a", "s", "f">>,
      <<".", "a", "m", "v">>, <<".", "m", "2", "t", "s">>, <<".", "t", "s">>,
      <<".", "m", "t", "s">> }

Digits == <<"0", "1", "2", "3", "4", "5", "6", "7", "8", "9">>

\* get_show_name's generic_names: five words and 's01' .. 's50'
generic_names ==
    { <<"s", "e", "a", "s", "o", "n">>, <<"d", "i", "s", "c">>,
      <<"e", "x", "t", "r", "a", "s">>, <<"s", "p", "e", "c", "i", "a", "l", "s">>,
      <<"b", "o", "n", "u", "s">> }
    \cup { <<"s", Digits[(d \div 10) + 1], Digits[(d % 10) + 1]>> : d \in 1..50 }

is_valid_directory(directory) ==
    IF Resolve(directory).kind = "absent" THEN FALSE
    ELSE IF Resolve(directory).kind # "dir" THEN FALSE
    ELSE IF startswith(PathName(directory), <<".">>) THEN FALSE
    ELSE TRUE

get_show_name(path) ==
    LET parents == PathParents(path)
        named == {i \in 1..Len(parents) :
                    /\ PathName(parents[i]) # <<>>
                    /\ ~ \E generic \in generic_names :
                            contains(generic, lower(PathName(parents[i])))}
    IN  IF named # {}
        THEN PathName(parents[CHOOSE i \in named : \A j \in named : i <= j])
        ELSE PathName(PathParent(path))

\* list.sort(key=lambda x: x.name): a stable sort, so the k-th element is the one
\* with k - 1 elements before it: those of smaller name and, among those of the same
\* name, the ones that stood before it
sort_by_name(vs) ==
    LET n == Len(vs)
        before == List([i \in 1..n |->
                    Cardinality({j \in 1..n :
                        \/ StrLess(PathName(vs[j]), PathName(vs[i]))
                        \/ (j < i /\ ~ StrLess(PathName(vs[i]), PathName(vs[j])))})])
    IN  List([k \in 1..n |-> vs[CHOOSE i \in 1..n : before[i] = k - 1]])

RECURSIVE Concat(_, _, _)
\* lists[lo] \o ... \o lists[hi]
Concat(lists, lo, hi) ==
    IF lo > hi THEN <<>>
    ELSE IF lo = hi THEN lists[lo]
    ELSE Concat(lists, lo, (lo + hi) \div 2) \o Concat(lists, ((lo + hi) \div 2) + 1, hi)

\* A for loop that only extends a list: each item contributes what the loop body
\* adds for it, or raises; the loop raises if an item does, and otherwise builds the
\* contributions in the order of the items
ForEach(contributions) ==
    IF \E i \in 1..Len(contributions) : contributions[i].raised
    THEN PermissionError
    ELSE Ok(Concat(List([i \in 1..Len(contributions) |-> contributions[i].value]),
                   1, Len(contributions)))

RECURSIVE get_videos(_, _)

\* the loop body without the test for a leading dot
get_videos_entry_with_hidden(entry, ord) ==
    IF Resolve(entry).kind = "dir" THEN get_videos(entry, ord)
    ELSE IF /\ Resolve(entry).kind = "file"
            /\ lower(PathSuffix(entry)) \in VALID_EXTENSIONS THEN Ok(<<entry>>)
    ELSE Ok(<<>>)

\* the body of get_videos' for loop: what one entry adds to videos
get_videos_entry(entry, ord) ==
    IF startswith(PathName(entry), <<".">>) THEN Ok(<<>>)
    ELSE IF Resolve(entry).kind = "dir" THEN get_videos(entry, ord)
    ELSE IF /\ Resolve(entry).kind = "file"
            /\ lower(PathSuffix(entry)) \in VALID_EXTENSIONS THEN Ok(<<entry>>)
    ELSE Ok(<<>>)

get_videos(directory, ord) ==
    LET listing == iterdir(directory, ord)
    IN  IF listing.raised THEN PermissionError
        ELSE LET found == ForEach(List([i \in 1..Len(listing.value) |->
                                          get_videos_entry(listing.value[i], ord)]))
             IN  IF found.raised THEN PermissionError
                 ELSE Ok(sort_by_name(found.value))

RECURSIVE find_show_directories(_, _)

\* the body of find_show_directories' inner for loop: what one entry of a root adds
\* to show_directories
find_show_subdirectory(subdirectory, ord) ==
    IF ~ is_valid_directory(subdirectory) THEN Ok(<<>>)
    ELSE IF contains(<<"s", "e", "a", "s", "o", "n">>, lower(PathName(subdirectory)))
    THEN Ok(<<>>)
    ELSE LET subdirs_with_videos == find_show_directories(<<subdirectory>>, ord)
         IN  IF subdirs_with_videos.raised THEN PermissionError
             ELSE IF subdirs_with_videos.value # <<>> THEN subdirs_with_videos
             ELSE LET own == get_videos(subdirectory, ord)
                  IN  IF own.raised THEN PermissionError
                      ELSE IF own.value # <<>> THEN Ok(<<subdirectory>>)
                      ELSE Ok(<<>>)

\* the body of find_show_directories' outer for loop: what one root adds
find_show_root(root_path, ord) ==
    IF ~ is_valid_directory(root_path) THEN Ok(<<>>)
    ELSE LET listing == iterdir(root_path, ord)
         IN  IF listing.raised THEN PermissionError
             ELSE LET subdirectories == sorted(listing.value)
                  IN  ForEach(List([j \in 1..Len(subdirectories) |->
                                      find_show_subdirectory(subdirectories[j], ord)]))

find_show_directories(source_roots, ord) ==
    ForEach(List([i \in 1..Len(source_roots) |-> find_show_root(source_roots[i], ord)]))

\* the file is opened for writing (an OSError is logged and swallowed) and gets one
\* line per video
write_playlist(vs, opened) == IF opened THEN vs ELSE playlist_file

\* dataclass Playlist
Playlist(show_name, vs, progress) ==
    [show_name |-> show_name, videos |-> vs, progress |-> progress]

\* next_video with the cursor advanced before the video is read
next_video_after_advance(self) ==
    IF self.videos = <<>>
    THEN [raised |-> TRUE, video |-> <<>>, self |-> self]
    ELSE [raised |-> FALSE,
          video  |-> self.videos[((self.progress + 1) % Len(self.videos)) + 1],
          self   |-> [self EXCEPT !.progress = (self.progress + 1) % Len(self.videos)]]

\* Playlist.next_video: the video returned and the object afterwards, or ValueError
next_video(self) ==
    IF self.videos = <<>>
    THEN [raised |-> TRUE, video |-> <<>>, self |-> self]
    ELSE [raised |-> FALSE,
          video  |-> self.videos[self.progress + 1],
          self   |-> [self EXCEPT !.progress = (self.progress + 1) % Len(self.videos)]]

\* the body of build_show_playlists' for loop: what one show adds to show_playlists
build_show_playlist(show_path, ord) ==
    LET vs == get_videos(show_path, ord)
    IN  IF vs.raised THEN PermissionError
        ELSE IF vs.value = <<>> THEN Ok(<<>>)
        ELSE Ok(<<Playlist(get_show_name(show_path), vs.value, 0)>>)

build_show_playlists(show_paths, ord) ==
    ForEach(List([i \in 1..Len(show_paths) |-> build_show_playlist(show_paths[i], ord)]))

RECURSIVE round_robin_stuck(_)
\* round_robin with a generator that never moves on to the next show
round_robin_stuck(st) ==
    IF st.remaining = 0 \/ st.shows = <<>> THEN st
    ELSE LET r == next_video(st.shows[st.i])
         IN  IF r.raised THEN [st EXCEPT !.raised = TRUE]
             ELSE round_robin_stuck([raised    |-> FALSE,
                                     shows     |-> [st.shows EXCEPT ![st.i] = r.self],
                                     i         |-> st.i,
                                     remaining |-> st.remaining - 1,
                                     value     |-> Append(st.value, r.video)])

RECURSIVE round_robin(_)
\* islice over (show.next_video() for show in cycle(shows)): st.shows are the
\* Playlist objects, the next item comes from st.shows[st.i], st.remaining items are
\* still to be taken and st.value is what was taken so far
round_robin(st) ==
    IF st.remaining = 0 \/ st.shows = <<>> THEN st
    ELSE LET r == next_video(st.shows[st.i])
         IN  IF r.raised THEN [st EXCEPT !.raised = TRUE]
             ELSE round_robin([raised    |-> FALSE,
                               shows     |-> [st.shows EXCEPT ![st.i] = r.self],
                               i         |-> (st.i % Len(st.shows)) + 1,
                               remaining |-> st.remaining - 1,
                               value     |-> Append(st.value, r.video)])

\* the list returned (value) and the Playlist objects afterwards (shows)
build_unified_playlist(shows_, length) ==
    round_robin([raised |-> FALSE, shows |-> shows_, i |-> 1,
                 remaining |-> length, value |-> <<>>])

\* build_unified_playlist's default playlist_length
DefaultPlaylistLength == 100

-----------------------------------------------------------------------------
(* File and directory names of the file systems explored *)

N_media   == <<"m", "e", "d", "i", "a">>
N_mnt     == <<"m", "n", "t">>
N_big     == <<"b", "i", "g">>
N_Show    == <<"S", "h", "o", "w">>
N_ShowA   == <<"S", "h", "o", "w", "A">>
N_ShowB   == <<"S", "h", "o", "w", "B">>
N_Season1 == <<"S", "e", "a", "s", "o", "n", " ", "1">>
N_Season2 == <<"S", "e", "a", "s", "o", "n", " ", "2">>
N_Disc1   == <<"D", "i", "s", "c", " ", "1">>
N_S01     == <<"S", "0", "1">>
N_Trash   == <<".", "T", "r", "a", "s", "h">>
N_A       == <<"A">>
N_B       == <<"B">>
N_Locked  == <<"L", "o", "c", "k", "e", "d">>
N_x0_MP4  == <<"x", "0", ".", "M", "P", "4">>
N_x1_mp4  == <<"x", "1", ".", "m", "p", "4">>
N_x2_mp4  == <<"x", "2", ".", "m", "p", "4">>
N_h_mp4   == <<".", "h", ".", "m", "p", "4">>
N_n_txt   == <<"n", ".", "t", "x", "t">>
N_t_mp4   == <<"t", ".", "m", "p", "4">>
N_v_mp4   == <<"v", ".", "m", "p", "4">>
N_ep1_mp4 == <<"e", "p", "1", ".", "m", "p", "4">>
N_ep2_mp4 == <<"e", "p", "2", ".", "m", "p", "4">>
N_a_mkv   == <<"a", ".", "m", "k", "v">>
N_b_mkv   == <<"b", ".", "m", "k", "v">>
N_fifo    == <<"f", "i", "f", "o", ".", "m", "p", "4">>

\* the root directory holding the given entries
RootDir(es) == Dir(<<>>, es)

MediaPath == <<N_media>>
ShowPath  == <<N_media, N_Show>>

-----------------------------------------------------------------------------
(* The file systems explored *)

\* what /media/Show may hold, in the order the directory stores it
Candidates ==
    << Dir(N_Season1, <<File(N_ep2_mp4), File(N_ep1_mp4)>>),
       Dir(N_Season2, <<File(N_ep1_mp4)>>),
       Dir(N_Trash, <<File(N_t_mp4)>>),
       DeniedDir(N_Locked, <<File(N_v_mp4)>>),
       File(N_x1_mp4),
       Dir(N_B, <<File(N_x1_mp4)>>),
       Dir(N_A, <<File(N_x2_mp4)>>),
       File(N_x0_MP4),
       File(N_h_mp4),
       File(N_n_txt),
       Special(N_fifo) >>

\* the candidates with index in S, in stored order
Chosen(S) ==
    List([i \in 1..Cardinality(S) |->
            Candidates[CHOOSE k \in S : Cardinality({j \in S : j <= k}) = i]])

\* /media/Show holding the candidates with index in S
ShowTree(S) == RootDir(<<Dir(N_media, <<Dir(N_Show, Chosen(S))>>)>>)

\* the trees the direct calls are made on: any choice of the candidates
ShowTrees == { ShowTree(S) : S \in SUBSET (1..Len(Candidates)) }

\* the trees of this shape the main loop is run on: any choice of the first candidates
LoopTrees == { ShowTree(S) : S \in SUBSET (1..6) }

\* /media/Show/<wrapper>/{ep1.mp4, ep2.mp4}
WrapperTree(wrapper) ==
    RootDir(<<Dir(N_media,
                  <<Dir(N_Show, <<Dir(wrapper, <<File(N_ep1_mp4), File(N_ep2_mp4)>>)>>)>>)>>)

\* /media/ShowA/Season 1/{ep1.mp4, ep2.mp4} and /media/ShowB/{a.mkv, b.mkv}
TwoShowTree ==
    RootDir(<<Dir(N_media,
                  <<Dir(N_ShowB, <<File(N_b_mkv), File(N_a_mkv)>>),
                    Dir(N_ShowA, <<Dir(N_Season1, <<File(N_ep1_mp4), File(N_ep2_mp4)>>)>>)>>)>>)

\* /media holding only .Trash/t.mp4
TrashTree == RootDir(<<Dir(N_media, <<Dir(N_Trash, <<File(N_t_mp4)>>)>>)>>)

\* /media/ShowA/a.mkv beside /media/Locked, which cannot be listed
LockedTree ==
    RootDir(<<Dir(N_media,
                  <<Dir(N_ShowA, <<File(N_a_mkv)>>),
                    DeniedDir(N_Locked, <<File(N_v_mp4)>>)>>)>>)

\* the name of the n-th directory of /big: three digits
Numbered(n) ==
    <<Digits[(n \div 100) + 1], Digits[((n \div 10) % 10) + 1], Digits[(n % 10) + 1]>>

\* /big/000 .. /big/<DefaultPlaylistLength>, each holding v.mp4: one show more than
\* the default cap
BigTree ==
    RootDir(<<Dir(N_big, List([n \in 1..(DefaultPlaylistLength + 1) |->
                                 Dir(Numbered(n - 1), <<File(N_v_mp4)>>)]))>>)

Scenario(tree, rs) == [fs |-> tree, roots |-> rs]

Scenarios ==
    { Scenario(t, <<MediaPath>>) : t \in LoopTrees }
    \cup { Scenario(WrapperTree(w), <<MediaPath>>) : w \in {N_Season1, N_Disc1, N_S01} }
    \cup { Scenario(TwoShowTree, <<MediaPath>>),
           Scenario(TwoShowTree, << <<N_media, N_ShowA, N_Season1>>, <<N_media, N_ShowB>> >>),
           Scenario(TwoShowTree, << <<N_mnt>>, <<N_media, N_ShowB, N_a_mkv>>, MediaPath >>),
           Scenario(TrashTree, <<MediaPath>>),
           Scenario(TrashTree, << <<N_media, N_Trash>> >>),
           Scenario(LockedTree, <<MediaPath>>),
           Scenario(BigTree, << <<N_big>> >>) }

-----------------------------------------------------------------------------
(* The main loop *)

Init ==
    /\ \E sc \in Scenarios : fs = sc.fs /\ roots = sc.roots
    /\ order = "stored"
    /\ pc = "find_show_directories"
    /\ shows = <<>>
    /\ playlists = <<>>
    /\ master_playlist = <<>>
    /\ playlist_file = <<>>
    /\ mpv_playlist = <<>>
    /\ cycles = 0
    /\ previous_cycle = [shows |-> <<>>, videos |-> <<>>]
    /\ called_on = <<>>
    /\ videos = Ok(<<>>)
    /\ playlist_length = DefaultPlaylistLength
    /\ given = <<>>
    /\ returned = <<>>

\* shows = find_show_directories(...); an exception other than KeyboardInterrupt
\* leaves the loop and ends the program
FindShows ==
    /\ pc = "find_show_directories"
    /\ \E ord \in ListingOrders :
          \E r \in {find_show_directories(roots, ord)} :
             /\ order' = ord
             /\ pc' = IF r.raised THEN "crashed" ELSE "build_show_playlists"
             /\ shows' = IF r.raised THEN shows ELSE r.value
    /\ UNCHANGED <<fs, roots, playlists, master_playlist, playlist_file, mpv_playlist,
                   cycles, previous_cycle, called_on, videos, playlist_length, given,
                   returned>>

\* playlists = build_show_playlists(shows)
BuildPlaylists ==
    /\ pc = "build_show_playlists"
    /\ \E ord \in ListingOrders :
          \E r \in {build_show_playlists(shows, ord)} :
             /\ order' = ord
             /\ pc' = IF r.raised THEN "crashed" ELSE "build_unified_playlist"
             /\ playlists' = IF r.raised THEN playlists ELSE r.value
    /\ UNCHANGED <<fs, roots, shows, master_playlist, playlist_file, mpv_playlist,
                   cycles, previous_cycle, called_on, videos, playlist_length, given,
                   returned>>

\* master_playlist = build_unified_playlist(playlists); next_video has advanced the
\* Playlist objects
BuildUnified ==
    /\ pc = "build_unified_playlist"
    /\ \E r \in {build_unified_playlist(playlists, playlist_length)} :
          /\ playlists' = r.shows
          /\ pc' = IF r.raised THEN "crashed" ELSE "play_videos"
          /\ master_playlist' = IF r.raised THEN master_playlist ELSE r.value
    /\ UNCHANGED <<fs, roots, order, shows, playlist_file, mpv_playlist,
                   cycles, previous_cycle, called_on, videos, playlist_length, given,
                   returned>>

\* play_videos(master_playlist): the playlist file is written, the player is started
\* on it and waited for
PlayVideos ==
    /\ pc = "play_videos"
    /\ \E opened \in BOOLEAN : playlist_file' = write_playlist(master_playlist, opened)
    /\ mpv_playlist' = master_playlist
    /\ cycles' = IF cycles < MaxCycles THEN cycles + 1 ELSE cycles
    /\ previous_cycle' = [shows  |-> shows,
                          videos |-> List([i \in 1..Len(playlists) |-> playlists[i].videos])]
    /\ pc' = "find_show_directories"
    /\ UNCHANGED <<fs, roots, order, shows, playlists, master_playlist,
                   called_on, videos, playlist_length, given, returned>>

\* except KeyboardInterrupt
KeyboardInterrupt ==
    /\ pc \in {"find_show_directories", "build_show_playlists",
               "build_unified_playlist", "play_videos"}
    /\ pc' = "terminated"
    /\ UNCHANGED <<fs, roots, order, shows, playlists, master_playlist, playlist_file,
                   mpv_playlist, cycles, previous_cycle, called_on, videos,
                   playlist_length, given, returned>>

Next == FindShows \/ BuildPlaylists \/ BuildUnified \/ PlayVideos \/ KeyboardInterrupt

Spec == Init /\ [][Next]_vars

-----------------------------------------------------------------------------
(* Direct calls of get_videos and find_show_directories on every tree of ShowTrees *)

InitCalls ==
    /\ fs \in ShowTrees
    /\ roots \in {<<MediaPath>>, <<ShowPath>>}
    /\ called_on = ShowPath
    /\ order = "stored"
    /\ pc = "call"
    /\ shows = <<>>
    /\ videos = Ok(<<>>)
    /\ playlists = <<>>
    /\ master_playlist = <<>>
    /\ playlist_file = <<>>
    /\ mpv_playlist = <<>>
    /\ cycles = 0
    /\ previous_cycle = [shows |-> <<>>, videos |-> <<>>]
    /\ playlist_length = DefaultPlaylistLength
    /\ given = <<>>
    /\ returned = <<>>

\* videos = get_videos(called_on)
CallGetVideos ==
    /\ pc = "call"
    /\ \E ord \in ListingOrders :
          \E r \in {get_videos(called_on, ord)} :
             /\ order' = ord
             /\ videos' = r
             /\ pc' = IF r.raised THEN "get_videos raised" ELSE "get_videos returned"
    /\ UNCHANGED <<fs, roots, shows, playlists, master_playlist, playlist_file,
                   mpv_playlist, cycles, previous_cycle, called_on, playlist_length,
                   given, returned>>

\* shows = find_show_directories(roots)
CallFindShowDirectories ==
    /\ pc = "call"
    /\ \E ord \in ListingOrders :
          \E r \in {find_show_directories(roots, ord)} :
             /\ order' = ord
             /\ shows' = r.value
             /\ pc' = IF r.raised THEN "find_show_directories raised"
                      ELSE "find_show_directories returned"
    /\ UNCHANGED <<fs, roots, playlists, master_playlist, playlist_file, mpv_playlist,
                   cycles, previous_cycle, called_on, videos, playlist_length, given,
                   returned>>

NextCalls == CallGetVideos \/ CallFindShowDirectories

SpecCalls == InitCalls /\ [][NextCalls]_vars

-----------------------------------------------------------------------------
(* Playlist objects built directly: next_video and build_unified_playlist *)

\* v<k>.mp4
VideoName(k) == <<"v", Digits[(k % 10) + 1], ".", "m", "p", "4">>
\* Show<i>
ShowName(i) == N_Show \o <<Digits[(i % 10) + 1]>>
\* /media/Show<i>/v<k>.mp4
Video(i, k) == <<N_media, ShowName(i), VideoName(k)>>

Idle ==
    /\ fs = RootDir(<<>>)
    /\ roots = <<>>
    /\ order = "stored"
    /\ shows = <<>>
    /\ playlist_file = <<>>
    /\ mpv_playlist = <<>>
    /\ cycles = 0
    /\ previous_cycle = [shows |-> <<>>, videos |-> <<>>]
    /\ called_on = <<>>
    /\ videos = Ok(<<>>)

\* one Playlist of up to MaxVideos videos, in any order and with repetitions, at cursor 0
InitPlaylist ==
    /\ Idle
    /\ \E len \in 0..MaxVideos :
          \E vs \in [1..len -> {Video(1, k) : k \in 1..MaxVideos}] :
             given = <<Playlist(ShowName(1), List(vs), 0)>>
    /\ playlists = given
    /\ pc = "next_video"
    /\ master_playlist = <<>>
    /\ playlist_length = DefaultPlaylistLength
    /\ returned = <<>>

\* playlists[1].next_video()
CallNextVideo ==
    /\ pc = "next_video"
    /\ Len(returned) < MaxCalls
    /\ \E r \in {next_video(playlists[1])} :
          /\ playlists' = <<r.self>>
          /\ pc' = IF r.raised THEN "ValueError" ELSE "next_video"
          /\ returned' = IF r.raised THEN returned ELSE Append(returned, r.video)
    /\ UNCHANGED <<fs, roots, order, shows, master_playlist, playlist_file, mpv_playlist,
                   cycles, previous_cycle, called_on, videos, playlist_length, given>>

SpecPlaylist == InitPlaylist /\ [][CallNextVideo]_vars

\* up to MaxShows Playlists of up to MaxVideos videos each, all at cursor 0, and a cap
\* of up to MaxRounds rounds
InitScheduler ==
    /\ Idle
    /\ \E n \in 0..MaxShows :
          /\ \E lens \in [1..n -> 0..MaxVideos] :
                given = List([i \in 1..n |->
                            Playlist(ShowName(i),
                                     List([k \in 1..lens[i] |-> Video(i, k)]), 0)])
          /\ playlist_length \in 0..(MaxRounds * n)
    /\ playlists = given
    /\ pc = "build_unified_playlist"
    /\ master_playlist = <<>>
    /\ returned = <<>>

SpecScheduler == InitScheduler /\ [][BuildUnified]_vars

-----------------------------------------------------------------------------
(* Properties *)

\* a name that starts with a dot
Hidden(name) == name # <<>> /\ name[1] = "."

\* path lies strictly below base
Below(path, base) == Len(path) > Len(base) /\ SubSeq(path, 1, Len(base)) = base

\* path has a hidden component below base
HiddenBelow(path, base) == \E i \in (Len(base) + 1)..Len(path) : Hidden(path[i])

\* video v is one of the videos given[i] was constructed with
FromGiven(v, i) == \E k \in 1..Len(given[i].videos) : given[i].videos[k] = v

\* the positions lo..hi of the master playlist filled from given[i]
TakenFrom(i, lo, hi) == {j \in lo..hi : FromGiven(master_playlist[j], i)}

\* C1: round-robin fairness. For N >= 1 playlists of at least one video each, all at
\* cursor 0, and a cap of k*N with k >= 1, build_unified_playlist returns k*N entries,
\* entry j taken from playlist ((j-1) mod N)+1, so k from each playlist and one from
\* each playlist in every window of N consecutive entries.
C1_RoundRobinFair ==
    ( /\ pc = "play_videos"
      /\ Len(given) >= 1
      /\ \A i \in 1..Len(given) : Len(given[i].videos) >= 1
      /\ playlist_length >= 1
      /\ playlist_length % Len(given) = 0 )
    => LET n == Len(given)
           k == playlist_length \div Len(given)
       IN  /\ Len(master_playlist) = k * n
           /\ \A j \in 1..Len(master_playlist) :
                 FromGiven(master_playlist[j], ((j - 1) % n) + 1)
           /\ \A i \in 1..n : Cardinality(TakenFrom(i, 1, Len(master_playlist))) = k
           /\ \A w \in 0..(Len(master_playlist) - n) :
                 \A i \in 1..n : Cardinality(TakenFrom(i, w + 1, w + n)) = 1

\* three playlists of 1, 2 and 3 videos scheduled for two rounds
C1_Witness ==
    /\ pc = "play_videos"
    /\ Len(given) = 3
    /\ playlist_length = 6
    /\ Len(given[1].videos) = 1 /\ Len(given[2].videos) = 2 /\ Len(given[3].videos) = 3
    /\ Len(master_playlist) = 6

\* C2: playlist wrap-around. For a Playlist of L >= 1 videos created at cursor 0, after
\* any number of next_video calls the cursor is in 0..L-1, the video list is the one it
\* was created with, and the n-th call returned videos[(n-1) mod L].
C2_WrapAround ==
    (Len(given[1].videos) >= 1)
    => /\ playlists[1].progress \in 0..(Len(given[1].videos) - 1)
       /\ playlists[1].videos = given[1].videos
       /\ \A n \in 1..Len(returned) :
             returned[n] = given[1].videos[((n - 1) % Len(given[1].videos)) + 1]

\* videos [v1, v2, v3] advanced five times gave v1, v2, v3, v1, v2
C2_Witness ==
    /\ given[1].videos = <<Video(1, 1), Video(1, 2), Video(1, 3)>>
    /\ returned = <<Video(1, 1), Video(1, 2), Video(1, 3), Video(1, 1), Video(1, 2)>>
    /\ playlists[1].progress = 2

\* the tree of C3: the root holds only Show, which holds only one wrapper directory,
\* which directly holds video files only
OneWrapper ==
    /\ roots = <<MediaPath>>
    /\ Len(Resolve(MediaPath).entries) = 1
    /\ Resolve(ShowPath).kind = "dir"
    /\ Len(Resolve(ShowPath).entries) = 1
    /\ Resolve(ShowPath).entries[1].kind = "dir"
    /\ ~ Resolve(ShowPath).entries[1].denied
    /\ \E generic \in generic_names :
          contains(generic, lower(Resolve(ShowPath).entries[1].name))
    /\ Resolve(ShowPath).entries[1].entries # <<>>
    /\ \A i \in 1..Len(Resolve(ShowPath).entries[1].entries) :
          /\ Resolve(ShowPath).entries[1].entries[i].kind = "file"
          /\ ~ Hidden(Resolve(ShowPath).entries[1].entries[i].name)
          /\ lower(PathSuffix(<<Resolve(ShowPath).entries[1].entries[i].name>>))
                \in VALID_EXTENSIONS

\* C3: when a root's child Show holds exactly one organizational wrapper directory that
\* directly holds the videos, discovery yields exactly one show and its show_name is
\* Show.
C3_ShowNamedAfterShow ==
    (OneWrapper /\ pc = "build_unified_playlist")
    => (Len(playlists) = 1 /\ playlists[1].show_name = N_Show)

\* the roots of the scenario of C4
C4Roots == << <<N_media, N_ShowA, N_Season1>>, <<N_media, N_ShowB>> >>

C4Scenario == fs = TwoShowTree /\ roots = C4Roots /\ pc = "play_videos"

\* C4: a configured root that directly holds videos contributes them as a show. With
\* the roots /media/ShowA/Season 1 (ep1.mp4, ep2.mp4) and /media/ShowB (a.mkv, b.mkv)
\* the master sequence starts ShowA/ep1, ShowB/a, ShowA/ep2, ShowB/b.
C4_RootWithVideosIsShow ==
    C4Scenario
    => /\ Len(master_playlist) >= 4
       /\ SubSeq(master_playlist, 1, 4) = << <<N_media, N_ShowA, N_Season1, N_ep1_mp4>>,
                                             <<N_media, N_ShowB, N_a_mkv>>,
                                             <<N_media, N_ShowA, N_Season1, N_ep2_mp4>>,
                                             <<N_media, N_ShowB, N_b_mkv>> >>

\* C5: when discovery yields zero shows the main loop does not hand the empty master
\* sequence to the external player.
C5_NoPlayerOnEmpty ==
    ~ (cycles >= 1 /\ pc = "find_show_directories" /\ shows = <<>> /\ mpv_playlist = <<>>)

\* C6: get_videos never returns a hidden file, a file below a hidden directory of the
\* tree, or a file whose lower-cased extension is not in VALID_EXTENSIONS;
\* find_show_directories never emits a hidden directory, and a root holding only
\* hidden directories yields no shows.
C6_HiddenNeverSurface ==
    /\ (pc = "get_videos returned")
       => \A k \in 1..Len(videos.value) :
             /\ Below(videos.value[k], called_on)
             /\ ~ HiddenBelow(videos.value[k], called_on)
             /\ lower(PathSuffix(videos.value[k])) \in VALID_EXTENSIONS
             /\ Resolve(videos.value[k]).kind = "file"
    /\ (pc = "find_show_directories returned")
       => /\ \A k \in 1..Len(shows) :
                ~ Hidden(PathName(shows[k])) /\ ~ HiddenBelow(shows[k], roots[1])
          /\ (\A i \in 1..Len(Resolve(roots[1]).entries) :
                 Hidden(Resolve(roots[1]).entries[i].name))
             => shows = <<>>

\* get_videos returned videos from a directory that also holds a hidden file, a hidden
\* directory with a video inside and a file that is no video
C6_Witness ==
    /\ pc = "get_videos returned"
    /\ videos.value # <<>>
    /\ Resolve(ShowPath \o <<N_h_mp4>>).kind = "file"
    /\ Resolve(ShowPath \o <<N_Trash, N_t_mp4>>).kind = "file"
    /\ Resolve(ShowPath \o <<N_n_txt>>).kind = "file"
    /\ Resolve(ShowPath \o <<N_x0_MP4>>).kind = "file"

\* C7: on an unchanged tree a second discovery yields the same show directories in the
\* same order, each with the same ordered videos, whatever order the OS lists
\* directories in.
C7_DiscoveryDeterministic ==
    (cycles >= 1 /\ pc = "build_unified_playlist")
    => /\ shows = previous_cycle.shows
       /\ List([i \in 1..Len(playlists) |-> playlists[i].videos]) = previous_cycle.videos

\* C8: every discovered show contributes at least one video to the master sequence
\* handed to the player.
C8_NoStarvation ==
    (cycles >= 1 /\ pc = "find_show_directories")
    => \A i \in 1..Len(playlists) :
          \E j \in 1..Len(mpv_playlist) :
             \E k \in 1..Len(playlists[i].videos) : mpv_playlist[j] = playlists[i].videos[k]

\* /media/Show/{A/x2.mp4, B/x1.mp4}
C9Example == ShowTree({6, 7})

\* the positions of the returned videos that lie below directory d
PositionsBelow(d) == {k \in 1..Len(videos.value) : Below(videos.value[k], d)}

\* C9: get_videos does not re-sort by file name across the whole tree. The videos of a
\* subdirectory stay together as one block, and for Show/{A/x2.mp4, B/x1.mp4} the
\* result is A/x2.mp4, B/x1.mp4.
C9_SubdirectoryBlocks ==
    (pc = "get_videos returned")
    => /\ \A i \in 1..Len(Resolve(called_on).entries) :
             \A a, b \in PositionsBelow(Append(called_on, Resolve(called_on).entries[i].name)) :
                \A c \in a..b :
                   c \in PositionsBelow(Append(called_on, Resolve(called_on).entries[i].name))
       /\ (fs = C9Example)
          => videos.value = << ShowPath \o <<N_A, N_x2_mp4>>, ShowPath \o <<N_B, N_x1_mp4>> >>

\* C10: an error of a directory listing never leaves the main loop.
C10_ErrorsSwallowed == pc # "crashed"

====
